---- MODULE Spec2Model ----
(***************************************************************************)
(* Model of frontend/src/components/control/CalibrationModal.tsx: the      *)
(* calibration overlay of one printer.  The state is the React state of    *)
(* the mounted component (the three progress flags, `initialized`, the     *)
(* five option checkboxes), its props (`status`, `printer.nozzle_count`),  *)
(* the localStorage record `calibration_options_<id>`, and the start       *)
(* mutation (the observer's status and the requests still in flight).      *)
(*                                                                         *)
(* A render is a state of the model.  The four tracking effects of one     *)
(* render run together in one step (EffectPass) on the values that render  *)
(* closed over; the state they set is the next render.  A state is settled *)
(* when the effects of its render set nothing.                             *)
(***************************************************************************)
EXTENDS Integers, Sequences, FiniteSets, Bags, TLC

VARIABLES
    mode,                   \* "closed" | "open" | "crashed": is the component mounted
    isDualNozzle,           \* printer.nozzle_count === 2
    status,                 \* the status prop (StatusNull for null / undefined)
    calibrationStarted,     \* useState, line 97
    seenCalibrating,        \* useState, line 99
    calibrationCompleted,   \* useState, line 101
    initialized,            \* useState, line 114
    options,                \* the five checkbox states, lines 108-112
    storage,                \* localStorage[storageKey]
    mutationStatus,         \* calibrationMutation.status of the mounted observer
    sentOptions,            \* body of the mounted observer's request in flight
    detached,               \* requests in flight whose component has unmounted
    out                     \* result cell of the pure-function specifications

vars == <<mode, isDualNozzle, status, calibrationStarted, seenCalibrating,
          calibrationCompleted, initialized, options, storage, mutationStatus,
          sentOptions, detached, out>>

(***************************************************************************)
(* Bounds of the model.                                                    *)
(***************************************************************************)
\* requests in flight that may outlive their component at one time
MaxDetached == 1
\* largest stage code the classifier specification enumerates
MaxStage == 60

(***************************************************************************)
(* Data.                                                                   *)
(***************************************************************************)
OptionNames == {"bedLeveling", "vibration", "motorNoise", "nozzleOffset", "highTempHeatbed"}

Selections == [OptionNames -> BOOLEAN]

\* line 15
CALIBRATION_STAGES == {1, 3, 13, 25, 39, 40, 47, 48, 50}

\* status === null | undefined
StatusNull == [present |-> FALSE, connected |-> FALSE, state |-> "undefined", stg_cur |-> -1]

MkStatus(c, s, g) == [present |-> TRUE, connected |-> c, state |-> s, stg_cur |-> g]

\* the stage codes of the snapshots the tracker specification delivers: four
\* calibration stages and one stage that is no calibration stage (0)
TrackedStages == {0, 1, 13, 25, 48}

TrackedStates == {"RUNNING", "IDLE"}

Snapshots ==
    {StatusNull} \cup
    {MkStatus(c, s, g) : c \in BOOLEAN, s \in TrackedStates, g \in TrackedStages}

\* line 92: status?.connected ?? false
isConnected(st) == IF st.present THEN st.connected ELSE FALSE

\* line 94: status?.stg_cur ?? -1
currentStage(st) == IF st.present THEN st.stg_cur ELSE -1

\* line 119: status?.state
printerState(st) == IF st.present THEN st.state ELSE "undefined"

isCalibratingNoState(st) == currentStage(st) \in CALIBRATION_STAGES

\* line 120
isCalibrating(st) ==
    currentStage(st) \in CALIBRATION_STAGES /\ printerState(st) = "RUNNING"

(***************************************************************************)
(* The persisted record.                                                   *)
(***************************************************************************)
NoOptions == [o \in OptionNames |-> FALSE]

StorageAbsent == [kind |-> "absent", value |-> NoOptions]

\* content JSON.parse rejects
StorageMalformed == [kind |-> "malformed", value |-> NoOptions]

\* lines 193-195: JSON.stringify of the five booleans
StorageRecord(sel) == [kind |-> "record", value |-> sel]

\* lines 108-112 with parsedOptions null, and lines 165-169
DefaultOptions(dual) ==
    [o \in OptionNames |->
        CASE o = "bedLeveling" -> TRUE
          [] o = "vibration" -> TRUE
          [] o = "motorNoise" -> TRUE
          [] o = "nozzleOffset" -> dual
          [] o = "highTempHeatbed" -> FALSE]

\* lines 105-112: the useState initial values
InitialOptions(store, dual) ==
    IF store.kind = "record" THEN store.value ELSE DefaultOptions(dual)

(***************************************************************************)
(* The expected flow, lines 203-232.                                       *)
(***************************************************************************)
Step(n, s) == [name |-> n, stages |-> s]

PushIf(cond, flow, step) == IF cond THEN Append(flow, step) ELSE flow

expectedFlowSwapped(sel, dual) ==
    LET f1 == <<Step("Homing toolhead", {13})>>
        f2 == PushIf(sel["bedLeveling"] \/ sel["highTempHeatbed"], f1, Step("Cooling heatbed", {50}))
        f3 == PushIf(sel["bedLeveling"], f2, Step("Auto bed leveling - phase 1", {1, 47}))
        f4 == PushIf(sel["vibration"], f3, Step("Vibration compensation", {3}))
        f5 == PushIf(sel["motorNoise"], f4, Step("Motor noise cancellation", {25}))
        f6 == PushIf(sel["bedLeveling"], f5, Step("Auto bed leveling - phase 2", {48}))
        f7 == PushIf(dual /\ sel["nozzleOffset"], f6, Step("Nozzle offset calibration", {39}))
    IN  PushIf(sel["highTempHeatbed"], f7, Step("High-temp heatbed calibration", {40}))

expectedFlow(sel, dual) ==
    LET f1 == <<Step("Homing toolhead", {13})>>
        f2 == PushIf(sel["bedLeveling"] \/ sel["highTempHeatbed"], f1, Step("Cooling heatbed", {50}))
        f3 == PushIf(sel["bedLeveling"], f2, Step("Auto bed leveling - phase 1", {1, 47}))
        f4 == PushIf(sel["motorNoise"], f3, Step("Motor noise cancellation", {25}))
        f5 == PushIf(sel["vibration"], f4, Step("Vibration compensation", {3}))
        f6 == PushIf(sel["bedLeveling"], f5, Step("Auto bed leveling - phase 2", {48}))
        f7 == PushIf(dual /\ sel["nozzleOffset"], f6, Step("Nozzle offset calibration", {39}))
    IN  PushIf(sel["highTempHeatbed"], f7, Step("High-temp heatbed calibration", {40}))

\* line 200
hasSelection(sel) ==
    sel["bedLeveling"] \/ sel["vibration"] \/ sel["motorNoise"]
        \/ sel["nozzleOffset"] \/ sel["highTempHeatbed"]

\* line 201
canStart(st, sel, pending, completed) ==
    isConnected(st) /\ hasSelection(sel) /\ ~pending /\ ~isCalibrating(st) /\ ~completed

\* the timeline region rendered for every selection, empty or not
timelineRegionAlways(sel, flow) ==
    [kind |-> "timeline", names |-> [i \in 1..Len(flow) |-> flow[i].name]]

\* lines 337-364: the timeline region shows the steps of the flow when
\* something is selected, the text "Select calibration steps" otherwise
timelineRegion(sel, flow) ==
    IF hasSelection(sel)
    THEN [kind |-> "timeline", names |-> [i \in 1..Len(flow) |-> flow[i].name]]
    ELSE [kind |-> "text", names |-> <<"Select calibration steps">>]

\* currentStepIndex counting the steps from 1
currentStepIndexOneBased(flow, stage) ==
    LET hits == {i \in 1..Len(flow) : stage \in flow[i].stages}
    IN  IF hits = {} THEN -1 ELSE CHOOSE i \in hits : \A j \in hits : i <= j

\* lines 229-232: findIndex gives the 0-based place of the first step whose
\* stages include the stage, or -1
currentStepIndex(flow, stage) ==
    LET hits == {i \in 1..Len(flow) : stage \in flow[i].stages}
    IN  IF hits = {} THEN -1 ELSE (CHOOSE i \in hits : \A j \in hits : i <= j) - 1

\* line 340
isActive(started, completed, step, stage) ==
    started /\ ~completed /\ stage \in step.stages

\* line 341; index is the 0-based index of the step in the flow
isComplete(started, completed, stepIndex, index) ==
    completed \/ (started /\ stepIndex > index)

(***************************************************************************)
(* The tracking effects, lines 122-156.  `r` is the render the effects     *)
(* closed over, `q` the state with the updates queued so far.              *)
(***************************************************************************)
Flags(i, s, t, c) == [initialized |-> i, seen |-> s, started |-> t, completed |-> c]

\* lines 124-132
InitializedEffect(r, cal, q) ==
    IF ~r.initialized /\ cal
    THEN [q EXCEPT !.seen = TRUE, !.started = TRUE, !.initialized = TRUE]
    ELSE IF ~r.initialized /\ ~cal
         THEN [q EXCEPT !.initialized = TRUE]
         ELSE q

\* SeenCalibratingEffect without the seenCalibrating guard
SeenCalibratingEffectEveryRun(r, cal, q) ==
    IF cal
    THEN [q EXCEPT !.seen = TRUE, !.completed = FALSE]
    ELSE q

\* lines 135-140
SeenCalibratingEffect(r, cal, q) ==
    IF cal /\ ~r.seen
    THEN [q EXCEPT !.seen = TRUE, !.completed = FALSE]
    ELSE q

\* ExternalStartEffect left out
ExternalStartEffectOff(r, cal, q) == q

\* lines 143-147
ExternalStartEffect(r, cal, q) ==
    IF cal /\ ~r.started
    THEN [q EXCEPT !.started = TRUE]
    ELSE q

\* CompletionEffect without the seenCalibrating guard
CompletionEffectNoSeen(r, cal, q) ==
    IF ~cal /\ ~r.completed
    THEN [q EXCEPT !.completed = TRUE]
    ELSE q

\* CompletionEffect that also clears seenCalibrating
CompletionEffectClearsSeen(r, cal, q) ==
    IF r.seen /\ ~cal /\ ~r.completed
    THEN [q EXCEPT !.completed = TRUE, !.seen = FALSE]
    ELSE q

\* CompletionEffect without the isCalibrating guard
CompletionEffectAnyStage(r, cal, q) ==
    IF r.seen /\ ~r.completed
    THEN [q EXCEPT !.completed = TRUE]
    ELSE q

\* the completion effect never firing
CompletionEffectNever(r, cal, q) == q

\* lines 152-156
CompletionEffect(r, cal, q) ==
    IF r.seen /\ ~cal /\ ~r.completed
    THEN [q EXCEPT !.completed = TRUE]
    ELSE q

\* one flush of the four effects of render r, in source order
RunEffects(r, cal) ==
    CompletionEffect(r, cal,
        ExternalStartEffect(r, cal,
            SeenCalibratingEffect(r, cal,
                InitializedEffect(r, cal, r))))

\* the flags of the current render
Rendered == Flags(initialized, seenCalibrating, calibrationStarted, calibrationCompleted)

\* the effects of the current render set nothing
Settled == mode = "open" => RunEffects(Rendered, isCalibrating(status)) = Rendered

(***************************************************************************)
(* Requests in flight.                                                     *)
(***************************************************************************)
\* a request whose component unmounted: the body sent, and the options the
\* onSuccess closure of the last render before the unmount holds
Detached(sent, closure) == [sent |-> sent, closure |-> closure]

InFlight ==
    (IF mutationStatus = "pending" THEN 1 ELSE 0) + BagCardinality(detached)

\* the checkbox the operator clicks in the tracker specification; the tracker
\* reads the options through hasSelection alone, and the record an earlier
\* session left (Init) makes the empty selection reachable
ToggleOptions == {"bedLeveling"}

(***************************************************************************)
(* Initial state: the overlay is closed, no status has arrived, and        *)
(* localStorage holds nothing, unparseable content, or a record an earlier *)
(* session left.                                                           *)
(***************************************************************************)
Init ==
    /\ mode = "closed"
    /\ isDualNozzle \in BOOLEAN
    /\ status = StatusNull
    /\ calibrationStarted = FALSE
    /\ seenCalibrating = FALSE
    /\ calibrationCompleted = FALSE
    /\ initialized = FALSE
    /\ options = NoOptions
    /\ storage \in {StorageAbsent, StorageMalformed, StorageRecord(NoOptions)}
    /\ mutationStatus = "idle"
    /\ sentOptions = NoOptions
    /\ detached = EmptyBag
    /\ out = [kind |-> "none"]

(***************************************************************************)
(* Actions.                                                                *)
(***************************************************************************)
\* the parent passes a new status prop
Snapshot(s) ==
    /\ mode # "crashed"
    /\ s # status
    /\ status' = s
    /\ UNCHANGED <<mode, isDualNozzle, calibrationStarted, seenCalibrating,
                   calibrationCompleted, initialized, options, storage,
                   mutationStatus, sentOptions, detached, out>>

\* the overlay is opened: the component mounts, lines 91-114
Open ==
    /\ mode = "closed"
    /\ storage.kind # "malformed"
    /\ mode' = "open"
    /\ calibrationStarted' = FALSE
    /\ seenCalibrating' = FALSE
    /\ calibrationCompleted' = FALSE
    /\ initialized' = FALSE
    /\ options' = InitialOptions(storage, isDualNozzle)
    /\ mutationStatus' = "idle"
    /\ sentOptions' = NoOptions
    /\ UNCHANGED <<isDualNozzle, status, storage, detached, out>>

\* the overlay is opened on a record JSON.parse rejects: line 106 throws
\* during the first render
OpenCrash ==
    /\ mode = "closed"
    /\ storage.kind = "malformed"
    /\ mode' = "crashed"
    /\ UNCHANGED <<isDualNozzle, status, calibrationStarted, seenCalibrating,
                   calibrationCompleted, initialized, options, storage,
                   mutationStatus, sentOptions, detached, out>>

\* onClose: the parent unmounts the component; a request in flight goes on
Close ==
    /\ mode = "open"
    /\ mutationStatus = "pending" => BagCardinality(detached) < MaxDetached
    /\ mode' = "closed"
    /\ calibrationStarted' = FALSE
    /\ seenCalibrating' = FALSE
    /\ calibrationCompleted' = FALSE
    /\ initialized' = FALSE
    /\ options' = NoOptions
    /\ mutationStatus' = "idle"
    /\ sentOptions' = NoOptions
    /\ detached' = IF mutationStatus = "pending"
                   THEN detached (+) SetToBag({Detached(sentOptions, options)})
                   ELSE detached
    /\ UNCHANGED <<isDualNozzle, status, storage, out>>

\* the effects of the current render are flushed, lines 124-156
EffectPass ==
    /\ mode = "open"
    /\ ~Settled
    /\ LET q == RunEffects(Rendered, isCalibrating(status))
       IN  /\ initialized' = q.initialized
           /\ seenCalibrating' = q.seen
           /\ calibrationStarted' = q.started
           /\ calibrationCompleted' = q.completed
    /\ UNCHANGED <<mode, isDualNozzle, status, options, storage,
                   mutationStatus, sentOptions, detached, out>>

\* a checkbox is clicked, lines 18-30 and 266-316
Toggle(o) ==
    /\ mode = "open"
    /\ ~(~isConnected(status) \/ isCalibrating(status))
    /\ o = "nozzleOffset" => isDualNozzle
    /\ options' = [options EXCEPT ![o] = ~options[o]]
    /\ UNCHANGED <<mode, isDualNozzle, status, calibrationStarted, seenCalibrating,
                   calibrationCompleted, initialized, storage, mutationStatus,
                   sentOptions, detached, out>>

\* the start button is clicked, lines 183-190 and 385-387
Start ==
    /\ mode = "open"
    /\ ~calibrationCompleted
    /\ canStart(status, options, mutationStatus = "pending", calibrationCompleted)
    /\ mutationStatus' = "pending"
    /\ sentOptions' = options
    /\ UNCHANGED <<mode, isDualNozzle, status, calibrationStarted, seenCalibrating,
                   calibrationCompleted, initialized, options, storage, detached, out>>

\* the request of the mounted component succeeds: onSuccess, lines 191-197,
\* runs with the options of the current render
StartSucceeded ==
    /\ mode = "open"
    /\ mutationStatus = "pending"
    /\ storage' = StorageRecord(options)
    /\ calibrationStarted' = TRUE
    /\ mutationStatus' = "success"
    /\ sentOptions' = NoOptions
    /\ UNCHANGED <<mode, isDualNozzle, status, seenCalibrating, calibrationCompleted,
                   initialized, options, detached, out>>

\* StartFailed with the body of onSuccess run on failure too
StartFailedMarksStarted ==
    /\ mode = "open"
    /\ mutationStatus = "pending"
    /\ storage' = StorageRecord(options)
    /\ calibrationStarted' = TRUE
    /\ mutationStatus' = "error"
    /\ sentOptions' = NoOptions
    /\ UNCHANGED <<mode, isDualNozzle, status, seenCalibrating, calibrationCompleted,
                   initialized, options, detached, out>>

\* the request of the mounted component fails: no onError, lines 412-416 show
\* the message
StartFailed ==
    /\ mode = "open"
    /\ mutationStatus = "pending"
    /\ mutationStatus' = "error"
    /\ sentOptions' = NoOptions
    /\ UNCHANGED <<mode, isDualNozzle, status, calibrationStarted, seenCalibrating,
                   calibrationCompleted, initialized, options, storage, detached, out>>

\* a request whose component unmounted succeeds: onSuccess writes the record
\* from its closure; setCalibrationStarted reaches no mounted component
DetachedSucceeded(d) ==
    /\ BagIn(d, detached)
    /\ detached' = detached (-) SetToBag({d})
    /\ storage' = StorageRecord(d.closure)
    /\ UNCHANGED <<mode, isDualNozzle, status, calibrationStarted, seenCalibrating,
                   calibrationCompleted, initialized, options, mutationStatus,
                   sentOptions, out>>

\* a request whose component unmounted fails
DetachedFailed(d) ==
    /\ BagIn(d, detached)
    /\ detached' = detached (-) SetToBag({d})
    /\ UNCHANGED <<mode, isDualNozzle, status, calibrationStarted, seenCalibrating,
                   calibrationCompleted, initialized, options, storage,
                   mutationStatus, sentOptions, out>>

\* resetCalibration without localStorage.removeItem
resetCalibrationKeepsRecord ==
    /\ mode = "open"
    /\ calibrationCompleted
    /\ calibrationStarted' = FALSE
    /\ seenCalibrating' = FALSE
    /\ calibrationCompleted' = FALSE
    /\ options' = DefaultOptions(isDualNozzle)
    /\ UNCHANGED <<mode, isDualNozzle, status, initialized, storage, mutationStatus,
                   sentOptions, detached, out>>

\* "New Calibration" is clicked, lines 159-170 and 377-382
resetCalibration ==
    /\ mode = "open"
    /\ calibrationCompleted
    /\ storage' = StorageAbsent
    /\ calibrationStarted' = FALSE
    /\ seenCalibrating' = FALSE
    /\ calibrationCompleted' = FALSE
    /\ options' = DefaultOptions(isDualNozzle)
    /\ UNCHANGED <<mode, isDualNozzle, status, initialized, mutationStatus,
                   sentOptions, detached, out>>

Next ==
    \/ \E s \in Snapshots : Snapshot(s)
    \/ Open
    \/ OpenCrash
    \/ Close
    \/ EffectPass
    \/ \E o \in ToggleOptions : Toggle(o)
    \/ Start
    \/ StartSucceeded
    \/ StartFailed
    \/ \E d \in BagToSet(detached) : DetachedSucceeded(d)
    \/ \E d \in BagToSet(detached) : DetachedFailed(d)
    \/ resetCalibration

Spec == Init /\ [][Next]_vars

(***************************************************************************)
(* The component as React schedules it: the effects of a committed render  *)
(* are flushed before any later event is handled, so every other step      *)
(* starts from a settled render, and a pending flush is always carried     *)
(* out.                                                                    *)
(***************************************************************************)
NextLive ==
    \/ EffectPass
    \/ Settled /\ \E s \in Snapshots : Snapshot(s)
    \/ Settled /\ Open
    \/ Settled /\ OpenCrash
    \/ Settled /\ Close
    \/ Settled /\ \E o \in ToggleOptions : Toggle(o)
    \/ Settled /\ Start
    \/ Settled /\ StartSucceeded
    \/ Settled /\ StartFailed
    \/ Settled /\ \E d \in BagToSet(detached) : DetachedSucceeded(d)
    \/ Settled /\ \E d \in BagToSet(detached) : DetachedFailed(d)
    \/ Settled /\ resetCalibration

SpecLive == Init /\ [][NextLive]_vars /\ WF_vars(EffectPass)

(***************************************************************************)
(* Specifications of the pure functions: the inputs are drawn in the       *)
(* initial state and one action applies the function to them.              *)
(***************************************************************************)
\* the overlay is closed and nothing is in flight
Unmounted ==
    /\ mode = "closed"
    /\ calibrationStarted = FALSE
    /\ seenCalibrating = FALSE
    /\ calibrationCompleted = FALSE
    /\ initialized = FALSE
    /\ storage = StorageAbsent
    /\ mutationStatus = "idle"
    /\ sentOptions = NoOptions
    /\ detached = EmptyBag
    /\ out = [kind |-> "none"]

\* gcode states a printer reports
ClassifierStates == {"RUNNING", "IDLE", "PREPARE", "PAUSE", "FINISH", "FAILED"}

ClassifierInputs ==
    {StatusNull} \cup
    {MkStatus(c, s, g) : c \in BOOLEAN, s \in ClassifierStates, g \in -1..MaxStage}

InitClassifier ==
    /\ Unmounted
    /\ isDualNozzle = FALSE
    /\ options = NoOptions
    /\ status \in ClassifierInputs

\* lines 92-94 and 119-120 on the status drawn
Classify ==
    /\ out.kind = "none"
    /\ out' = [kind |-> "isCalibrating", value |-> isCalibrating(status)]
    /\ UNCHANGED <<mode, isDualNozzle, status, calibrationStarted, seenCalibrating,
                   calibrationCompleted, initialized, options, storage,
                   mutationStatus, sentOptions, detached>>

NextClassifier == Classify

SpecClassifier == InitClassifier /\ [][NextClassifier]_vars

InitFlow ==
    /\ Unmounted
    /\ isDualNozzle \in BOOLEAN
    /\ options \in Selections
    /\ status = StatusNull

\* lines 203-227 and 337-364 on the selection drawn
BuildFlow ==
    /\ out.kind = "none"
    /\ out' = [kind |-> "flow", value |-> expectedFlow(options, isDualNozzle),
               region |-> timelineRegion(options, expectedFlow(options, isDualNozzle))]
    /\ UNCHANGED <<mode, isDualNozzle, status, calibrationStarted, seenCalibrating,
                   calibrationCompleted, initialized, options, storage,
                   mutationStatus, sentOptions, detached>>

NextFlow == BuildFlow

SpecFlow == InitFlow /\ [][NextFlow]_vars

(***************************************************************************)
(* A run of a bed-leveling-only calibration watched by an open, idle       *)
(* overlay: the four snapshots of the run arrive in order, each after the  *)
(* reactions to the one before have been flushed.                          *)
(***************************************************************************)
ScenarioSelection == [NoOptions EXCEPT !["bedLeveling"] = TRUE]

ScenarioSnapshots ==
    << [state |-> "RUNNING", stg_cur |-> 13],
       [state |-> "RUNNING", stg_cur |-> 1],
       [state |-> "RUNNING", stg_cur |-> 48],
       [state |-> "IDLE", stg_cur |-> 48] >>

InitScenario ==
    /\ mode = "open"
    /\ isDualNozzle \in BOOLEAN
    /\ status \in {s \in Snapshots : ~isCalibrating(s)}
    /\ calibrationStarted = FALSE
    /\ seenCalibrating = FALSE
    /\ calibrationCompleted = FALSE
    /\ initialized = TRUE
    /\ options = ScenarioSelection
    /\ storage \in {StorageAbsent, StorageRecord(ScenarioSelection)}
    /\ mutationStatus \in {"idle", "success", "error"}
    /\ sentOptions = NoOptions
    /\ detached = EmptyBag
    /\ out = [kind |-> "scenario", delivered |-> 0]

\* the next snapshot of the run arrives as the status prop
ScenarioSnapshot ==
    /\ Settled
    /\ out.delivered < Len(ScenarioSnapshots)
    /\ \E c \in BOOLEAN :
          status' = MkStatus(c, ScenarioSnapshots[out.delivered + 1].state,
                             ScenarioSnapshots[out.delivered + 1].stg_cur)
    /\ out' = [out EXCEPT !.delivered = @ + 1]
    /\ UNCHANGED <<mode, isDualNozzle, calibrationStarted, seenCalibrating,
                   calibrationCompleted, initialized, options, storage,
                   mutationStatus, sentOptions, detached>>

NextScenario ==
    \/ ScenarioSnapshot
    \/ EffectPass

SpecScenario == InitScenario /\ [][NextScenario]_vars

(***************************************************************************)
(* C1.                                                                     *)
(***************************************************************************)
\* C1: for every stage code and every device state, the classification is
\* true iff the stage code is one of 1, 3, 13, 25, 39, 40, 47, 48, 50 and the
\* state is RUNNING; it is false when no status is available.
C1_IsCalibratingIff ==
    out.kind = "isCalibrating" =>
        (out.value <=>
            /\ status.present
            /\ status.stg_cur \in {1, 3, 13, 25, 39, 40, 47, 48, 50}
            /\ status.state = "RUNNING")

\* a stage of the set on a printer that has stopped running: classified FALSE
C1_Witness ==
    /\ out.kind = "isCalibrating"
    /\ status.present
    /\ status.stg_cur = 48
    /\ status.state = "FINISH"
    /\ out.value = FALSE

(***************************************************************************)
(* C2.                                                                     *)
(***************************************************************************)
\* the fixed table of the claim, by the names the source gives the steps
C2_Table ==
    << "Homing toolhead", "Cooling heatbed", "Auto bed leveling - phase 1",
       "Motor noise cancellation", "Vibration compensation",
       "Auto bed leveling - phase 2", "Nozzle offset calibration",
       "High-temp heatbed calibration" >>

\* the guard the claim gives each step of the table
C2_Guard(n) ==
    CASE n = "Homing toolhead" -> TRUE
      [] n = "Cooling heatbed" -> options["bedLeveling"] \/ options["highTempHeatbed"]
      [] n = "Auto bed leveling - phase 1" -> options["bedLeveling"]
      [] n = "Motor noise cancellation" -> options["motorNoise"]
      [] n = "Vibration compensation" -> options["vibration"]
      [] n = "Auto bed leveling - phase 2" -> options["bedLeveling"]
      [] n = "Nozzle offset calibration" -> isDualNozzle /\ options["nozzleOffset"]
      [] n = "High-temp heatbed calibration" -> options["highTempHeatbed"]

C2_Names(flow) == [i \in 1..Len(flow) |-> flow[i].name]

C2_BedLevelingOnly == [NoOptions EXCEPT !["bedLeveling"] = TRUE]

\* C2: the expected flow is the subsequence of the fixed table whose guards
\* hold, in the table's order; bed leveling alone on a single-nozzle printer
\* gives Homing, Cooling, phase 1, phase 2.
C2_FlowIsGuardedSubsequence ==
    out.kind = "flow" =>
        /\ C2_Names(out.value) = SelectSeq(C2_Table, C2_Guard)
        /\ (options = C2_BedLevelingOnly /\ ~isDualNozzle) =>
              C2_Names(out.value) =
                  << "Homing toolhead", "Cooling heatbed",
                     "Auto bed leveling - phase 1", "Auto bed leveling - phase 2" >>

\* the flow of a selection with both motor noise and vibration has been built
C2_Witness ==
    /\ out.kind = "flow"
    /\ options["motorNoise"] /\ options["vibration"] /\ options["nozzleOffset"]
    /\ isDualNozzle
    /\ Len(out.value) >= 4

(***************************************************************************)
(* Claims about the tracker, checked under Spec.  The flags are those of   *)
(* the mounted component: a step that mounts or unmounts it (Open, Close)  *)
(* creates or discards them and is no transition of the tracker.           *)
(***************************************************************************)
Mounted == mode = "open" /\ mode' = "open"

\* a request of the mounted component resolves in this step
LiveFailure == Mounted /\ mutationStatus = "pending" /\ mutationStatus' = "error"

LiveSuccess == Mounted /\ mutationStatus = "pending" /\ mutationStatus' = "success"

\* C3: completed is true only if ever-seen-running is true, and completed
\* turns from false to true only from a state in which ever-seen-running is
\* already true and the device is classified as not calibrating.
C3_CompletedOnlyAfterSeen ==
    [][ /\ calibrationCompleted' => seenCalibrating'
        /\ (~calibrationCompleted /\ calibrationCompleted') =>
              (seenCalibrating /\ ~isCalibrating(status)) ]_vars

\* a run has been seen and has completed
C3_Witness ==
    /\ mode = "open"
    /\ calibrationCompleted
    /\ seenCalibrating
    /\ ~isCalibrating(status)

C5_SnapshotIdempotent ==
    [][ EffectPass =>
          /\ RunEffects(Rendered, isCalibrating(status))' = Rendered'
          /\ status' = status
          /\ options' = options
          /\ storage' = storage ]_vars

\* the reactions to a calibrating snapshot have run and the state is settled
C5_Witness ==
    /\ mode = "open"
    /\ initialized
    /\ seenCalibrating
    /\ calibrationStarted
    /\ ~calibrationCompleted
    /\ isCalibrating(status)
    /\ Settled

\* C6: a start request is sent only when the device is connected, an option
\* is selected, no start request is in flight, the classifier does not report
\* calibrating and completed is false.
C6_StartOnlyWhenAllowed ==
    [][ InFlight' > InFlight =>
          /\ isConnected(status)
          /\ hasSelection(options)
          /\ InFlight = 0
          /\ ~isCalibrating(status)
          /\ ~calibrationCompleted ]_vars

\* C7: at most one start request is in flight at any time, also when the
\* overlay is closed and reopened before the request resolves.
C7_AtMostOneInFlight == InFlight <= 1

\* C8: when a start request of the mounted overlay fails, the three flags and
\* the persisted record are unchanged, the error state that shows the message
\* is set, nothing is sent in reaction, and start is available again exactly
\* under the other preconditions.
C8_FailureLeavesState ==
    [][ LiveFailure =>
          /\ calibrationStarted' = calibrationStarted
          /\ seenCalibrating' = seenCalibrating
          /\ calibrationCompleted' = calibrationCompleted
          /\ storage' = storage
          /\ options' = options
          /\ InFlight' = InFlight - 1
          /\ canStart(status', options', mutationStatus' = "pending", calibrationCompleted')
               <=> (/\ isConnected(status)
                    /\ hasSelection(options)
                    /\ ~isCalibrating(status)
                    /\ ~calibrationCompleted) ]_vars

\* a request has failed, the message is shown and start is available again
C8_Witness ==
    /\ mode = "open"
    /\ mutationStatus = "error"
    /\ ~calibrationStarted
    /\ storage = StorageAbsent
    /\ canStart(status, options, FALSE, calibrationCompleted)

\* C9: when a start request succeeds, started becomes true and the persisted
\* record is the selection that request sent.
C9_SuccessPersistsSent ==
    [][ LiveSuccess =>
          /\ calibrationStarted'
          /\ storage' = StorageRecord(sentOptions) ]_vars

\* the defaults of the claim
C10_Defaults ==
    [o \in OptionNames |->
        IF o = "nozzleOffset" THEN isDualNozzle ELSE o # "highTempHeatbed"]

C10_Idle == ~calibrationStarted /\ ~seenCalibrating /\ ~calibrationCompleted

\* C10: a reset while Completed sets the three flags to false, removes the
\* persisted record and restores the default selection; after it no snapshot
\* that classifies as not calibrating, and no reaction to one, moves the
\* tracker out of Idle.
C10_ResetRestoresIdle ==
    [][ /\ (Mounted /\ calibrationCompleted /\ ~calibrationCompleted') =>
              /\ C10_Idle'
              /\ storage' = StorageAbsent
              /\ options' = C10_Defaults
        /\ (Mounted /\ C10_Idle /\ ~isCalibrating(status')
                /\ mutationStatus' = mutationStatus) => C10_Idle' ]_vars

\* the state a reset leaves: a request had succeeded, yet no record is stored
C10_Witness ==
    /\ mode = "open"
    /\ mutationStatus = "success"
    /\ storage = StorageAbsent
    /\ C10_Idle
    /\ options = DefaultOptions(isDualNozzle)
    /\ ~isCalibrating(status)
    /\ Settled

C12_ExternalRunTracked ==
    [][ /\ (mode' = "open" /\ isCalibrating(status') /\ ~calibrationStarted') =>
              ~(RunEffects(Rendered, isCalibrating(status)) = Rendered)'
        /\ (EffectPass /\ isCalibrating(status) /\ ~calibrationStarted) =>
              /\ calibrationStarted'
              /\ seenCalibrating'
              /\ ~calibrationCompleted'
              /\ InFlight' = InFlight
              /\ mutationStatus' = mutationStatus
        /\ (mode = "closed" /\ mode' = "open" /\ storage.kind = "record") =>
              options' = storage.value
        /\ (Mounted /\ ~initialized /\ isCalibrating(status)) =>
              options' = options
        /\ (EffectPass /\ ~initialized /\ isCalibrating(status)) =>
              /\ calibrationStarted' /\ seenCalibrating' /\ ~calibrationCompleted'
              /\ (RunEffects(Rendered, isCalibrating(status)) = Rendered)' ]_vars

\* the overlay was opened on (RUNNING, 25) with a record stored: it is settled
\* in Running with the record's selection and no request was sent from it
C12_Witness ==
    /\ mode = "open"
    /\ status = MkStatus(TRUE, "RUNNING", 25)
    /\ initialized
    /\ calibrationStarted
    /\ seenCalibrating
    /\ ~calibrationCompleted
    /\ mutationStatus = "idle"
    /\ InFlight = 0
    /\ storage.kind = "record"
    /\ options = storage.value
    /\ Settled

(***************************************************************************)
(* C13, checked under SpecScenario.                                        *)
(***************************************************************************)
C13_Flow == expectedFlow(options, isDualNozzle)

C13_Index == currentStepIndex(C13_Flow, currentStage(status))

C13_Complete(i) ==
    isComplete(calibrationStarted, calibrationCompleted, C13_Index, i)

\* C13: with the flow Homing, Cooling, phase 1, phase 2 and the snapshots
\* (RUNNING,13), (RUNNING,1), (RUNNING,48), (IDLE,48) from Idle, the step index
\* after each snapshot is 0, 2, 3, 3; after each of the first three the tracker
\* settles in Running with exactly the steps below the index complete, and
\* after the fourth it settles in Completed with every step complete.
C13_ScenarioB ==
    /\ C2_Names(C13_Flow) =
          << "Homing toolhead", "Cooling heatbed",
             "Auto bed leveling - phase 1", "Auto bed leveling - phase 2" >>
    /\ out.delivered >= 1 => C13_Index = <<0, 2, 3, 3>>[out.delivered]
    /\ (out.delivered \in 1..3 /\ Settled) =>
          /\ calibrationStarted /\ ~calibrationCompleted
          /\ \A i \in 0..(Len(C13_Flow) - 1) : C13_Complete(i) <=> i < C13_Index
    /\ (out.delivered = 4 /\ Settled) =>
          /\ calibrationCompleted
          /\ \A i \in 0..(Len(C13_Flow) - 1) : C13_Complete(i)

\* the fourth snapshot has been reacted to
C13_Witness ==
    /\ out.kind = "scenario"
    /\ out.delivered = 4
    /\ status.state = "IDLE"
    /\ calibrationCompleted
    /\ Settled

\* C14: opening the overlay on an absent or unparseable record never fails:
\* the component mounts with the default selection.
C14_OpenFallsBackToDefaults ==
    [][ (mode = "closed" /\ mode' # "closed" /\ storage.kind # "record") =>
            /\ mode' = "open"
            /\ options' = DefaultOptions(isDualNozzle) ]_vars

\* C15: while the tracker is Running (started, not completed), the optimistic
\* Running state after an accepted start included, the operator cannot change
\* any option of the selection.
C15_SelectionFrozenWhileRunning ==
    [][ (Mounted /\ Settled /\ calibrationStarted /\ ~calibrationCompleted) =>
            options' = options ]_vars

\* C16: a gap in the snapshot stream (status absent, or the device reported as
\* disconnected) never completes the run by itself: completed turns true only
\* on a snapshot of a connected device that classifies as not calibrating.
C16_GapNeverCompletes ==
    [][ (~calibrationCompleted /\ calibrationCompleted') =>
            /\ status.present
            /\ status.connected
            /\ ~isCalibrating(status) ]_vars

\* C17 (as stated): with no option selected the flow built is the empty list
\* and the timeline region shows the nothing-selected text.
C17_EmptyFlowWhenNothingSelected ==
    (out.kind = "flow" /\ ~hasSelection(options)) =>
        /\ out.value = <<>>
        /\ out.region.kind = "text"

\* C17 (amended): with no option selected the flow built is the single step
\* "Homing toolhead", and the timeline region shows the nothing-selected text
\* instead of a timeline.
C17_HomingOnlyWhenNothingSelected ==
    (out.kind = "flow" /\ ~hasSelection(options)) =>
        /\ C2_Names(out.value) = <<"Homing toolhead">>
        /\ out.region = [kind |-> "text", names |-> <<"Select calibration steps">>]

C17_Witness ==
    /\ out.kind = "flow"
    /\ options = NoOptions
    /\ isDualNozzle
    /\ out.region.kind = "text"

\* C18: completion is detected eventually and by nothing but the snapshots:
\* once a run has been seen and the current snapshot classifies as not
\* calibrating, completed becomes true; and completed never turns true on a
\* snapshot that classifies as calibrating, however long the run lasts.
C18_CompletionEventuallyDetected ==
    /\ (mode = "open" /\ seenCalibrating /\ ~calibrationCompleted
            /\ ~isCalibrating(status)) ~> calibrationCompleted
    /\ [][ (~calibrationCompleted /\ calibrationCompleted') =>
               ~isCalibrating(status) ]_vars

C18_Witness ==
    /\ mode = "open"
    /\ seenCalibrating
    /\ calibrationCompleted
    /\ status.present
    /\ ~isCalibrating(status)
    /\ InFlight = 0

\* C19: no start request is sent while the tracker is already Running: once
\* a start has succeeded (started true), no further request is issued before
\* the device reports RUNNING or the operator resets.
C19_NoStartWhileStarted ==
    [][ (mode = "open" /\ Settled /\ calibrationStarted) => ~Start ]_vars

\* C20: in every settled state of the open overlay the tracker is not
\* Completed while the device classifies as calibrating, a run triggered
\* externally after a completed run that was not reset included.
C20_NeverCompletedWhileCalibrating ==
    (mode = "open" /\ Settled) =>
        ~(calibrationCompleted /\ isCalibrating(status))

====
